---- MODULE Spec2Model ----
(***************************************************************************)
(* Model of the Seat/Cupra connector's data layer:                         *)
(*   charging.py        SeatCupraCharging, its Settings, the two vendor    *)
(*                      enums and mapping_seatcupra_charging_state         *)
(*   climatization.py   SeatCupraClimatization and its Settings            *)
(*   vehicle.py         SeatCupraVehicle / SeatCupraElectricVehicle and    *)
(*                      the two command-registration procedures            *)
(*                                                                         *)
(* Attribute values are strings: NoAttr (the object has no such attribute, *)
(* getattr(..., None) is None), None (attribute exists, value unset) or an *)
(* enum member written "Enum.MEMBER".                                      *)
(***************************************************************************)
EXTENDS Naturals, Sequences, FiniteSets

VARIABLES host, charging, climatization, chargingHist, climatizationHist,
          parsed, observed

vars == <<host, charging, climatization, chargingHist, climatizationHist,
          parsed, observed>>

\* Number of updates the connector applies to the object graph in one behaviour.
MaxObserved == 1

NoAttr == "NoAttr"
None == "None"

(***************************************************************************)
(* Enumerations                                                            *)
(***************************************************************************)
SeatCupraChargingState ==
    [OFF |-> "off",
     READY_FOR_CHARGING |-> "readyForCharging",
     NOT_READY_FOR_CHARGING |-> "notReadyForCharging",
     CONSERVATION |-> "conservation",
     CHARGE_PURPOSE_REACHED_NOT_CONSERVATION_CHARGING |-> "chargePurposeReachedAndNotConservationCharging",
     CHARGE_PURPOSE_REACHED_CONSERVATION |-> "chargePurposeReachedAndConservation",
     CHARGING |-> "charging",
     ERROR |-> "error",
     UNSUPPORTED |-> "unsupported",
     DISCHARGING |-> "discharging",
     UNKNOWN |-> "unknown charging state"]

SeatCupraChargeMode ==
    [MANUAL |-> "manual",
     INVALID |-> "invalid",
     OFF |-> "off",
     TIMER |-> "timer",
     ONLY_OWN_CURRENT |-> "onlyOwnCurrent",
     PREFERRED_CHARGING_TIMES |-> "preferredChargingTimes",
     TIMER_CHARGING_WITH_CLIMATISATION |-> "timerChargingWithClimatisation",
     HOME_STORAGE_CHARGING |-> "homeStorageCharging",
     IMMEDIATE_DISCHARGING |-> "immediateDischarging",
     UNKNOWN |-> "unknown charge mode"]

\* Members of the generic Charging.ChargingState the table's right-hand sides name.
ChargingState ==
    {"OFF", "READY_FOR_CHARGING", "CHARGING", "CONSERVATION", "ERROR",
     "UNSUPPORTED", "DISCHARGING", "UNKNOWN"}

\* A mapping whose UNKNOWN entry was given the wrong generic member.
mapping_entries_unknown_off ==
    << <<"OFF", "OFF">>,
       <<"NOT_READY_FOR_CHARGING", "OFF">>,
       <<"READY_FOR_CHARGING", "READY_FOR_CHARGING">>,
       <<"CONSERVATION", "CONSERVATION">>,
       <<"CHARGE_PURPOSE_REACHED_NOT_CONSERVATION_CHARGING", "READY_FOR_CHARGING">>,
       <<"CHARGE_PURPOSE_REACHED_CONSERVATION", "CONSERVATION">>,
       <<"CHARGING", "CHARGING">>,
       <<"ERROR", "ERROR">>,
       <<"UNSUPPORTED", "UNSUPPORTED">>,
       <<"DISCHARGING", "DISCHARGING">>,
       <<"UNKNOWN", "OFF">> >>

\* The dict literal, entry by entry, in source order: <<vendor member, generic member>>.
mapping_entries ==
    << <<"OFF", "OFF">>,
       <<"NOT_READY_FOR_CHARGING", "OFF">>,
       <<"READY_FOR_CHARGING", "READY_FOR_CHARGING">>,
       <<"CONSERVATION", "CONSERVATION">>,
       <<"CHARGE_PURPOSE_REACHED_NOT_CONSERVATION_CHARGING", "READY_FOR_CHARGING">>,
       <<"CHARGE_PURPOSE_REACHED_CONSERVATION", "CONSERVATION">>,
       <<"CHARGING", "CHARGING">>,
       <<"ERROR", "ERROR">>,
       <<"UNSUPPORTED", "UNSUPPORTED">>,
       <<"DISCHARGING", "DISCHARGING">>,
       <<"UNKNOWN", "UNKNOWN">> >>

\* The dict the literal evaluates to: for a repeated key the last entry wins.
mapping_seatcupra_charging_state ==
    [k \in {mapping_entries[i][1] : i \in DOMAIN mapping_entries} |->
        LET last == CHOOSE i \in DOMAIN mapping_entries :
                      /\ mapping_entries[i][1] = k
                      /\ \A j \in DOMAIN mapping_entries : mapping_entries[j][1] = k => j <= i
        IN mapping_entries[last][2]]

\* _missing_ that falls back to the UNKNOWN member instead of returning None.
missing_returns_unknown(clsName, value) == [result |-> "UNKNOWN", logged |-> TRUE]

\* _missing_(cls, value): LOG_API.info(...) then return None (same body in both enums).
missing(clsName, value) == [result |-> None, logged |-> TRUE]

\* cls(value): lookup by value; on a miss _missing_ is consulted and a result that
\* is not a member of cls makes Enum raise ValueError.
EnumCall(cls, clsName, value) ==
    LET hit == {m \in DOMAIN cls : cls[m] = value}
    IN IF hit # {}
       THEN [enum |-> clsName, raw |-> value, member |-> CHOOSE m \in hit : TRUE,
             logged |-> FALSE, raised |-> FALSE]
       ELSE LET r == missing(clsName, value)
            IN IF r.result \in DOMAIN cls
               THEN [enum |-> clsName, raw |-> value, member |-> r.result,
                     logged |-> r.logged, raised |-> FALSE]
               ELSE [enum |-> clsName, raw |-> value, member |-> None,
                     logged |-> r.logged, raised |-> TRUE]

\* Raw strings a vendor payload may carry: every member value and one unknown string.
RawChargingStates == {SeatCupraChargingState[m] : m \in DOMAIN SeatCupraChargingState} \cup {"turboCharging"}
RawChargeModes == {SeatCupraChargeMode[m] : m \in DOMAIN SeatCupraChargeMode} \cup {"turboCharging"}

NoParse == [enum |-> None, raw |-> None, member |-> None, logged |-> FALSE, raised |-> FALSE,
            generic |-> None]

(***************************************************************************)
(* Commands containers (carconnectivity.commands.Commands as vehicle.py    *)
(* uses it): present = the entity's `commands` attribute is not None.      *)
(***************************************************************************)
NoCommands == [present |-> FALSE, enabled |-> FALSE, commands |-> {}]

\* Commands(parent=...): a new, empty container.
NewCommands == [present |-> TRUE, enabled |-> FALSE, commands |-> {}]

CommandNames == {"start-stop", "wake-sleep"}

contains_command(c, name) == \E x \in c.commands : x.name = name

\* commands.add_command(command): the container gains the command object. The
\* container is modelled as the set of command objects it holds, so that two
\* commands of one name are representable.
add_command(c, cmd) == [c EXCEPT !.commands = @ \cup {cmd}]

\* command = commands.commands.get(name); if ... not command.enabled: command.enabled = True
enable_command(c, name) ==
    [c EXCEPT !.commands = {IF x.name = name THEN [x EXCEPT !.enabled = TRUE] ELSE x : x \in @}]

\* The charging procedure's body applied to climatization: nothing is re-enabled.
ensure_base_commands_add_only(clim) ==
    IF clim.exists
    THEN LET c0 == IF ~clim.commands.present THEN NewCommands ELSE clim.commands
             c1 == IF ~contains_command(c0, "start-stop")
                   THEN add_command(c0, [name |-> "start-stop", enabled |-> TRUE])
                   ELSE c0
         IN [clim EXCEPT !.commands = c1]
    ELSE clim

\* SeatCupraVehicle._ensure_base_commands, applied to self.climatization.
ensure_base_commands(clim) ==
    IF clim.exists
    THEN LET c0 == IF ~clim.commands.present THEN NewCommands ELSE clim.commands
             c1 == IF ~contains_command(c0, "start-stop")
                   THEN add_command(c0, [name |-> "start-stop", enabled |-> TRUE])
                   ELSE enable_command(c0, "start-stop")
             c2 == IF ~c1.enabled THEN [c1 EXCEPT !.enabled = TRUE] ELSE c1
         IN [clim EXCEPT !.commands = c2]
    ELSE clim

\* _ensure_charging_commands without the contains_command test.
ensure_charging_commands_always_add(chg) ==
    IF chg.exists
    THEN LET c0 == IF ~chg.commands.present THEN NewCommands ELSE chg.commands
         IN [chg EXCEPT !.commands =
                add_command(c0, [name |-> "start-stop", enabled |-> TRUE])]
    ELSE chg

\* SeatCupraElectricVehicle._ensure_charging_commands, applied to self.charging.
ensure_charging_commands(chg) ==
    IF chg.exists
    THEN LET c0 == IF ~chg.commands.present THEN NewCommands ELSE chg.commands
             c1 == IF ~contains_command(c0, "start-stop")
                   THEN add_command(c0, [name |-> "start-stop", enabled |-> TRUE])
                   ELSE c0
         IN [chg EXCEPT !.commands = c1]
    ELSE chg

\* Container states a previous snapshot may hand over (names are unique in a dict).
ContainerStates ==
    {NoCommands} \cup
    {[present |-> TRUE, enabled |-> e, commands |-> s] :
        e \in BOOLEAN,
        s \in {t \in SUBSET [name : CommandNames, enabled : BOOLEAN] :
                 \A x, y \in t : x.name = y.name => x = y}}

(***************************************************************************)
(* Host framework shape. The base classes Charging, ChargingConnector and  *)
(* Climatization come from the host; `absent` lists attributes the host    *)
(* version in use does not define, `failing` lists attributes whose        *)
(* _set_value raises when handed the UNKNOWN default, `stores` says        *)
(* whether such a failing _set_value stored the value before raising.      *)
(***************************************************************************)
ChargingBaseAttrs == {"state", "type"}
ConnectorAttrs == {"connection_state", "external_power", "lock_state"}
BrandAttrs == {"mode", "preferred_mode"}
ChargingAttrs == ChargingBaseAttrs \cup BrandAttrs \cup ConnectorAttrs
ClimatizationAttrs == {"state"}

ChargingSettingsFields == {"battery_care_enabled", "battery_care_target_level"}
ClimatizationSettingsFields == {"climatization_at_unlock", "window_heating_enabled", "unit_in_car"}

ConformingHost ==
    [absent |-> {}, connector |-> TRUE, failing |-> {}, stores |-> FALSE,
     climAbsent |-> {}, climFailing |-> {}]

\* Hosts whose shape differs from what the backfill expects.
MismatchedHosts ==
    {ConformingHost}
    \cup {[ConformingHost EXCEPT !.absent = {a}] : a \in ChargingBaseAttrs \cup ConnectorAttrs}
    \cup {[ConformingHost EXCEPT !.connector = FALSE, !.absent = ConnectorAttrs]}
    \cup {[ConformingHost EXCEPT !.failing = {a}, !.stores = st] : a \in ChargingAttrs, st \in BOOLEAN}
    \cup {[ConformingHost EXCEPT !.failing = ChargingAttrs, !.climFailing = ClimatizationAttrs]}
    \cup {[ConformingHost EXCEPT !.climAbsent = ClimatizationAttrs],
          [ConformingHost EXCEPT !.climFailing = ClimatizationAttrs],
          [ConformingHost EXCEPT !.climFailing = ClimatizationAttrs, !.stores = TRUE]}

\* The UNKNOWN member each backfilled attribute is given (charging.py 59-73).
ChargingUnknown ==
    [state |-> "ChargingState.UNKNOWN",
     type |-> "ChargingType.UNKNOWN",
     mode |-> "SeatCupraChargeMode.UNKNOWN",
     preferred_mode |-> "SeatCupraChargeMode.UNKNOWN",
     connection_state |-> "ChargingConnectorConnectionState.UNKNOWN",
     external_power |-> "ExternalPower.UNKNOWN",
     lock_state |-> "ChargingConnectorLockState.UNKNOWN"]

\* climatization.py 34
ClimatizationUnknown == [state |-> "ClimatizationState.UNKNOWN"]

\* Values the connector may write after a refresh (a sample of each value type).
ChargingObservable ==
    [state |-> {"ChargingState.CHARGING"},
     type |-> {"ChargingType.AC"},
     mode |-> {"SeatCupraChargeMode.TIMER", "SeatCupraChargeMode.MANUAL"},
     preferred_mode |-> {"SeatCupraChargeMode.TIMER"},
     connection_state |-> {"ChargingConnectorConnectionState.CONNECTED"},
     external_power |-> {"ExternalPower.AVAILABLE"},
     lock_state |-> {"ChargingConnectorLockState.LOCKED"}]
ClimatizationObservable == [state |-> {"ClimatizationState.HEATING"}]
ChargingSettingsObservable ==
    [battery_care_enabled |-> {"True"}, battery_care_target_level |-> {"80.0"}]
ClimatizationSettingsObservable ==
    [climatization_at_unlock |-> {"True"}, window_heating_enabled |-> {"False"},
     unit_in_car |-> {"celsius"}]

(***************************************************************************)
(* Settings                                                                *)
(***************************************************************************)
\* Charging.Settings / Climatization.Settings of the host: no brand field.
GenericChargingSettings == [brand |-> FALSE, f |-> [x \in ChargingSettingsFields |-> NoAttr]]
GenericClimatizationSettings == [brand |-> FALSE, f |-> [x \in ClimatizationSettingsFields |-> NoAttr]]

\* hasattr(origin, x) and getattr(origin.x, 'value', None) is not None
HasValue(v) == v # NoAttr /\ v # None

\* SeatCupraCharging.Settings.__init__: the two brand attributes are created
\* without a value and nothing is read from origin.
ChargingSettingsInit(origin) ==
    [brand |-> TRUE, f |-> [x \in ChargingSettingsFields |-> None]]

\* SeatCupraClimatization.Settings.__init__: created unset, then copied from
\* origin where origin has the attribute with a non-null value.
ClimatizationSettingsInit(origin) ==
    [brand |-> TRUE,
     f |-> [x \in ClimatizationSettingsFields |->
              IF HasValue(origin.f[x]) THEN origin.f[x] ELSE None]]

(***************************************************************************)
(* Entities                                                                *)
(***************************************************************************)
NoCharging ==
    [exists |-> FALSE, attrs |-> [a \in ChargingAttrs |-> NoAttr], connector |-> FALSE,
     settings |-> GenericChargingSettings, commands |-> NoCommands]

NoClimatization ==
    [exists |-> FALSE, attrs |-> [a \in ClimatizationAttrs |-> NoAttr],
     settings |-> GenericClimatizationSettings, commands |-> NoCommands]

\* super().__init__(vehicle=vehicle): the host's Charging as first built.
GenericCharging(h) ==
    [exists |-> TRUE,
     attrs |-> [a \in ChargingAttrs |->
                  IF a \in BrandAttrs \/ a \in h.absent \/ (a \in ConnectorAttrs /\ ~h.connector)
                  THEN NoAttr ELSE None],
     connector |-> h.connector,
     settings |-> GenericChargingSettings,
     commands |-> NewCommands]

\* super().__init__(vehicle=vehicle): the host's Climatization as first built.
GenericClimatization(h) ==
    [exists |-> TRUE,
     attrs |-> [a \in ClimatizationAttrs |-> IF a \in h.climAbsent THEN NoAttr ELSE None],
     settings |-> GenericClimatizationSettings,
     commands |-> NewCommands]

\* super().__init__(vehicle=vehicle, origin=origin): the host moves origin's
\* attribute objects, connector and commands to the new object.
ChargingFromOrigin(origin) ==
    [origin EXCEPT !.attrs = [a \in ChargingAttrs |-> IF a \in BrandAttrs THEN NoAttr ELSE origin.attrs[a]]]

\* super().__init__(vehicle=vehicle, origin=origin) of Climatization; reuse says
\* whether the host hands origin's settings object on (self.settings =
\* origin.settings) or leaves a generic Settings on the new object.
ClimatizationFromOrigin(reuse, origin) ==
    [origin EXCEPT !.settings = IF reuse THEN origin.settings ELSE GenericClimatizationSettings]

\* A lookup that never finds a value on origin.
OriginValue_dropped(origin, a) == None

\* hasattr(origin, a) -> getattr(origin.a, 'value', None), else None.
OriginValue(origin, a) ==
    IF origin.exists /\ origin.attrs[a] # NoAttr THEN origin.attrs[a] ELSE None

\* A test that also fires on attributes that already hold a value.
NeedsDefault_overwriting(e, a) ==
    /\ a \in ConnectorAttrs => e.connector
    /\ e.attrs[a] # NoAttr

\* getattr(self, a, None) is not None and getattr(self.a, 'value', None) is None,
\* the connector's three inside `if getattr(self, 'connector', None) is not None`.
NeedsDefault(e, a) ==
    /\ a \in ConnectorAttrs => e.connector
    /\ e.attrs[a] = None

\* A backfill that stops before the connector.
ChargingBackfillOrder_no_connector == <<"state", "type", "mode", "preferred_mode">>

\* The order of the seven tests inside the try block.
ChargingBackfillOrder ==
    <<"state", "type", "mode", "preferred_mode", "connection_state", "external_power", "lock_state">>

\* The statements of the try block from the i-th on; error = a _set_value raised
\* and the rest of the block was skipped.
RECURSIVE ChargingBackfillFrom(_, _, _)
ChargingBackfillFrom(e, i, h) ==
    IF i > Len(ChargingBackfillOrder) THEN [entity |-> e, error |-> FALSE]
    ELSE LET a == ChargingBackfillOrder[i]
         IN IF NeedsDefault(e, a)
            THEN IF a \in h.failing
                 THEN [entity |-> IF h.stores THEN [e EXCEPT !.attrs[a] = ChargingUnknown[a]] ELSE e,
                       error |-> TRUE]
                 ELSE ChargingBackfillFrom([e EXCEPT !.attrs[a] = ChargingUnknown[a]], i + 1, h)
            ELSE ChargingBackfillFrom(e, i + 1, h)

\* A handler that lets the exception through.
except_reraise(error) == error

\* except Exception: pass  -- does an exception leave the constructor?
except_pass(error) == FALSE

\* SeatCupraCharging.__init__(vehicle, origin); origin.exists = FALSE stands for None.
SeatCupraChargingInit(h, origin) ==
    LET base == IF origin.exists THEN ChargingFromOrigin(origin) ELSE GenericCharging(h)
        settingsOrigin == IF origin.exists THEN origin.settings ELSE base.settings
        origin_mode_value == OriginValue(origin, "mode")
        origin_preferred_mode_value == OriginValue(origin, "preferred_mode")
        pre == [base EXCEPT !.settings = ChargingSettingsInit(settingsOrigin),
                            !.attrs["mode"] = origin_mode_value,
                            !.attrs["preferred_mode"] = origin_preferred_mode_value]
        b == ChargingBackfillFrom(pre, 1, h)
    IN [entity |-> b.entity, pre |-> pre.attrs, settingsOrigin |-> settingsOrigin,
        skipped |-> b.error, escaped |-> except_pass(b.error)]

\* SeatCupraClimatization.__init__(vehicle, origin)
SeatCupraClimatizationInit(h, reuse, origin) ==
    LET base == IF origin.exists THEN ClimatizationFromOrigin(reuse, origin) ELSE GenericClimatization(h)
        settingsOrigin == IF origin.exists THEN origin.settings ELSE base.settings
        built == (~origin.exists) \/ ~base.settings.brand
        pre == IF built THEN [base EXCEPT !.settings = ClimatizationSettingsInit(settingsOrigin)]
               ELSE base
        needs == pre.attrs["state"] = None
        error == needs /\ "state" \in h.climFailing
        post == IF needs /\ (~error \/ h.stores)
                THEN [pre EXCEPT !.attrs["state"] = ClimatizationUnknown["state"]]
                ELSE pre
    IN [entity |-> post, pre |-> pre.attrs, settingsOrigin |-> settingsOrigin,
        settingsBuilt |-> built, skipped |-> error, escaped |-> except_pass(error)]

(***************************************************************************)
(* State machine. charging / climatization are the entities of the vehicle *)
(* being refreshed; the two history variables record what the last         *)
(* operation on each entity was handed and what it did, parsed is the      *)
(* outcome of the last enum parse, observed counts connector updates.      *)
(***************************************************************************)
NoChargingHist ==
    [ctor |-> FALSE, fresh |-> FALSE, origin |-> NoCharging, pre |-> NoCharging.attrs,
     settingsOrigin |-> GenericChargingSettings, skipped |-> FALSE, escaped |-> FALSE,
     ensured |-> FALSE, before |-> NoCommands]

NoClimatizationHist ==
    [ctor |-> FALSE, fresh |-> FALSE, origin |-> NoClimatization, pre |-> NoClimatization.attrs,
     settingsOrigin |-> GenericClimatizationSettings, settingsBuilt |-> FALSE,
     skipped |-> FALSE, escaped |-> FALSE, ensured |-> FALSE, before |-> NoCommands]

ChargingCtorHist(origin, r) ==
    [NoChargingHist EXCEPT !.ctor = TRUE, !.fresh = ~origin.exists, !.origin = origin,
                           !.pre = r.pre, !.settingsOrigin = r.settingsOrigin,
                           !.skipped = r.skipped, !.escaped = r.escaped]

ClimatizationCtorHist(origin, r) ==
    [NoClimatizationHist EXCEPT !.ctor = TRUE, !.fresh = ~origin.exists, !.origin = origin,
                                !.pre = r.pre, !.settingsOrigin = r.settingsOrigin,
                                !.settingsBuilt = r.settingsBuilt,
                                !.skipped = r.skipped, !.escaped = r.escaped]

Init ==
    /\ host = ConformingHost
    /\ charging = NoCharging
    /\ climatization = NoClimatization
    /\ chargingHist = NoChargingHist
    /\ climatizationHist = NoClimatizationHist
    /\ parsed = NoParse
    /\ observed = 0

InitMismatch ==
    /\ host \in MismatchedHosts
    /\ charging = NoCharging
    /\ climatization = NoClimatization
    /\ chargingHist = NoChargingHist
    /\ climatizationHist = NoClimatizationHist
    /\ parsed = NoParse
    /\ observed = 0

\* SeatCupraCharging(vehicle, origin) called on its own: origin is None, a generic
\* Charging, or the previous snapshot's SeatCupraCharging.
NewCharging ==
    \E origin \in {NoCharging, GenericCharging(host)} \cup (IF charging.exists THEN {charging} ELSE {}) :
        LET r == SeatCupraChargingInit(host, origin)
        IN /\ charging' = r.entity
           /\ chargingHist' = ChargingCtorHist(origin, r)
           /\ climatizationHist' = NoClimatizationHist
           /\ UNCHANGED <<host, climatization, parsed, observed>>

\* SeatCupraClimatization(vehicle, origin) called on its own.
NewClimatization ==
    \E origin \in {NoClimatization, GenericClimatization(host)}
                  \cup (IF climatization.exists THEN {climatization} ELSE {}) :
      \E reuse \in BOOLEAN :
        LET r == SeatCupraClimatizationInit(host, reuse, origin)
        IN /\ climatization' = r.entity
           /\ climatizationHist' = ClimatizationCtorHist(origin, r)
           /\ chargingHist' = NoChargingHist
           /\ UNCHANGED <<host, charging, parsed, observed>>

\* SeatCupraVehicle.__init__(vin, garage, managing_connector): origin is None.
NewVehicle ==
    LET origin == GenericClimatization(host)
        r == SeatCupraClimatizationInit(host, TRUE, origin)
    IN /\ climatization' = ensure_base_commands(r.entity)
       /\ climatizationHist' = [ClimatizationCtorHist(origin, r) EXCEPT
                                   !.ensured = TRUE, !.before = r.entity.commands]
       /\ charging' = NoCharging
       /\ chargingHist' = NoChargingHist
       /\ UNCHANGED <<host, parsed, observed>>

\* SeatCupraVehicle.__init__(garage, origin): the host carries climatization over.
UpgradeVehicle ==
    /\ climatization.exists
    /\ climatization' = ensure_base_commands(climatization)
    /\ climatizationHist' = [NoClimatizationHist EXCEPT
                                !.ensured = TRUE, !.before = climatization.commands]
    /\ charging' = NoCharging
    /\ chargingHist' = NoChargingHist
    /\ UNCHANGED <<host, parsed, observed>>

\* SeatCupraElectricVehicle.__init__(vin, garage, managing_connector): origin is None.
NewElectricVehicle ==
    LET corigin == GenericClimatization(host)
        cr == SeatCupraClimatizationInit(host, TRUE, corigin)
        origin == GenericCharging(host)
        r == SeatCupraChargingInit(host, origin)
    IN /\ climatization' = ensure_base_commands(cr.entity)
       /\ climatizationHist' = [ClimatizationCtorHist(corigin, cr) EXCEPT
                                   !.ensured = TRUE, !.before = cr.entity.commands]
       /\ charging' = ensure_charging_commands(r.entity)
       /\ chargingHist' = [ChargingCtorHist(origin, r) EXCEPT
                              !.ensured = TRUE, !.before = r.entity.commands]
       /\ UNCHANGED <<host, parsed, observed>>

\* SeatCupraElectricVehicle.__init__(garage, origin): charging is rebuilt from
\* origin.charging if origin is electric, else from the host's new Charging.
UpgradeElectricVehicle ==
    /\ climatization.exists
    /\ LET origin == IF charging.exists THEN charging ELSE GenericCharging(host)
           r == SeatCupraChargingInit(host, origin)
       IN /\ climatization' = ensure_base_commands(climatization)
          /\ climatizationHist' = [NoClimatizationHist EXCEPT
                                      !.ensured = TRUE, !.before = climatization.commands]
          /\ charging' = ensure_charging_commands(r.entity)
          /\ chargingHist' = [ChargingCtorHist(origin, r) EXCEPT
                                 !.ensured = TRUE, !.before = r.entity.commands]
    /\ UNCHANGED <<host, parsed, observed>>

\* vehicle._ensure_base_commands() called again.
EnsureBaseCommands ==
    /\ climatization.exists
    /\ climatization' = ensure_base_commands(climatization)
    /\ climatizationHist' = [NoClimatizationHist EXCEPT
                                !.ensured = TRUE, !.before = climatization.commands]
    /\ chargingHist' = NoChargingHist
    /\ UNCHANGED <<host, charging, parsed, observed>>

\* vehicle._ensure_charging_commands() called again.
EnsureChargingCommands ==
    /\ charging.exists
    /\ charging' = ensure_charging_commands(charging)
    /\ chargingHist' = [NoChargingHist EXCEPT !.ensured = TRUE, !.before = charging.commands]
    /\ climatizationHist' = NoClimatizationHist
    /\ UNCHANGED <<host, climatization, parsed, observed>>

(***************************************************************************)
(* The connector (caller of this layer): it writes observed values, hands  *)
(* over command containers in any state, and parses raw vendor strings.    *)
(***************************************************************************)
ObserveCharging ==
    /\ observed < MaxObserved
    /\ charging.exists
    /\ \E a \in ChargingAttrs : \E v \in ChargingObservable[a] :
          /\ charging.attrs[a] # NoAttr
          /\ charging' = [charging EXCEPT !.attrs[a] = v]
    /\ chargingHist' = NoChargingHist
    /\ climatizationHist' = NoClimatizationHist
    /\ observed' = observed + 1
    /\ UNCHANGED <<host, climatization, parsed>>

ObserveChargingSettings ==
    /\ observed < MaxObserved
    /\ charging.exists
    /\ \E x \in ChargingSettingsFields : \E v \in ChargingSettingsObservable[x] :
          /\ charging.settings.f[x] # NoAttr
          /\ charging' = [charging EXCEPT !.settings.f[x] = v]
    /\ chargingHist' = NoChargingHist
    /\ climatizationHist' = NoClimatizationHist
    /\ observed' = observed + 1
    /\ UNCHANGED <<host, climatization, parsed>>

ObserveClimatization ==
    /\ observed < MaxObserved
    /\ climatization.exists
    /\ \E a \in ClimatizationAttrs : \E v \in ClimatizationObservable[a] :
          /\ climatization.attrs[a] # NoAttr
          /\ climatization' = [climatization EXCEPT !.attrs[a] = v]
    /\ climatizationHist' = NoClimatizationHist
    /\ chargingHist' = NoChargingHist
    /\ observed' = observed + 1
    /\ UNCHANGED <<host, charging, parsed>>

ObserveClimatizationSettings ==
    /\ observed < MaxObserved
    /\ climatization.exists
    /\ \E x \in ClimatizationSettingsFields : \E v \in ClimatizationSettingsObservable[x] :
          /\ climatization.settings.f[x] # NoAttr
          /\ climatization' = [climatization EXCEPT !.settings.f[x] = v]
    /\ climatizationHist' = NoClimatizationHist
    /\ chargingHist' = NoChargingHist
    /\ observed' = observed + 1
    /\ UNCHANGED <<host, charging, parsed>>

SetChargingCommands ==
    /\ observed < MaxObserved
    /\ charging.exists
    /\ \E c \in ContainerStates : charging' = [charging EXCEPT !.commands = c]
    /\ chargingHist' = NoChargingHist
    /\ climatizationHist' = NoClimatizationHist
    /\ observed' = observed + 1
    /\ UNCHANGED <<host, climatization, parsed>>

SetClimatizationCommands ==
    /\ observed < MaxObserved
    /\ climatization.exists
    /\ \E c \in ContainerStates : climatization' = [climatization EXCEPT !.commands = c]
    /\ climatizationHist' = NoClimatizationHist
    /\ chargingHist' = NoChargingHist
    /\ observed' = observed + 1
    /\ UNCHANGED <<host, charging, parsed>>

\* SeatCupraCharging.SeatCupraChargingState(raw), then the table lookup on a hit.
ParseChargingState ==
    /\ observed < MaxObserved
    /\ \E raw \in RawChargingStates :
          LET r == EnumCall(SeatCupraChargingState, "SeatCupraChargingState", raw)
          IN parsed' = [enum |-> r.enum, raw |-> r.raw, member |-> r.member,
                        logged |-> r.logged, raised |-> r.raised,
                        generic |-> IF r.raised THEN None
                                    ELSE IF r.member \in DOMAIN mapping_seatcupra_charging_state
                                         THEN mapping_seatcupra_charging_state[r.member]
                                         ELSE "KeyError"]
    /\ chargingHist' = NoChargingHist
    /\ climatizationHist' = NoClimatizationHist
    /\ observed' = observed + 1
    /\ UNCHANGED <<host, charging, climatization>>

\* SeatCupraCharging.SeatCupraChargeMode(raw)
ParseChargeMode ==
    /\ observed < MaxObserved
    /\ \E raw \in RawChargeModes :
          LET r == EnumCall(SeatCupraChargeMode, "SeatCupraChargeMode", raw)
          IN parsed' = [enum |-> r.enum, raw |-> r.raw, member |-> r.member,
                        logged |-> r.logged, raised |-> r.raised, generic |-> None]
    /\ chargingHist' = NoChargingHist
    /\ climatizationHist' = NoClimatizationHist
    /\ observed' = observed + 1
    /\ UNCHANGED <<host, charging, climatization>>

Next ==
    \/ NewCharging
    \/ NewClimatization
    \/ NewVehicle
    \/ UpgradeVehicle
    \/ NewElectricVehicle
    \/ UpgradeElectricVehicle
    \/ EnsureBaseCommands
    \/ EnsureChargingCommands
    \/ ObserveCharging
    \/ ObserveChargingSettings
    \/ ObserveClimatization
    \/ ObserveClimatizationSettings
    \/ SetChargingCommands
    \/ SetClimatizationCommands
    \/ ParseChargingState
    \/ ParseChargeMode

Spec == Init /\ [][Next]_vars

\* Construction and the connector's value updates only.
NextEntities ==
    \/ NewCharging
    \/ NewClimatization
    \/ NewVehicle
    \/ NewElectricVehicle
    \/ UpgradeElectricVehicle
    \/ ObserveCharging
    \/ ObserveClimatization

SpecMismatch == InitMismatch /\ [][NextEntities]_vars

(***************************************************************************)
(* Properties                                                              *)
(***************************************************************************)
StartStop(c) == {x \in c.commands : x.name = "start-stop"}

\* "container exists, command exists, both enabled"
Stable(c) ==
    /\ c.present
    /\ c.enabled
    /\ StartStop(c) # {}
    /\ \A x \in StartStop(c) : x.enabled

IsMemberValue(cls, raw) == \E m \in DOMAIN cls : cls[m] = raw

ParsedEnum ==
    IF parsed.enum = "SeatCupraChargingState" THEN SeatCupraChargingState ELSE SeatCupraChargeMode

\* C1: the mapping table has exactly one entry for each of the 11 members of
\* SeatCupraChargingState, each value is a generic ChargingState, UNKNOWN maps to
\* UNKNOWN, and a payload value 'chargePurposeReachedAndConservation' resolves to
\* CONSERVATION; every successful parse resolves to a generic state.
C1_MappingTotal ==
    /\ Cardinality(DOMAIN SeatCupraChargingState) = 11
    /\ \A m \in DOMAIN SeatCupraChargingState :
          /\ Cardinality({i \in DOMAIN mapping_entries : mapping_entries[i][1] = m}) = 1
          /\ m \in DOMAIN mapping_seatcupra_charging_state
          /\ mapping_seatcupra_charging_state[m] \in ChargingState
    /\ DOMAIN mapping_seatcupra_charging_state = DOMAIN SeatCupraChargingState
    /\ mapping_seatcupra_charging_state["UNKNOWN"] = "UNKNOWN"
    /\ (parsed.enum = "SeatCupraChargingState" /\ ~parsed.raised) =>
          /\ parsed.generic \in ChargingState
          /\ parsed.generic = mapping_seatcupra_charging_state[parsed.member]
    /\ (parsed.enum = "SeatCupraChargingState" /\ parsed.raw = "chargePurposeReachedAndConservation") =>
          parsed.generic = "CONSERVATION"
    /\ (parsed.enum = "SeatCupraChargingState" /\ parsed.raw = "unknown charging state") =>
          parsed.generic = "UNKNOWN"

C1_Witness ==
    /\ parsed.enum = "SeatCupraChargingState"
    /\ parsed.raw = "chargePurposeReachedAndConservation"
    /\ parsed.member = "CHARGE_PURPOSE_REACHED_CONSERVATION"
    /\ parsed.generic = "CONSERVATION"

\* C2 as stated: parsing a raw string that is no member value of the enum does
\* not raise; a diagnostic is logged and no member results.
C2_ParseDoesNotRaise ==
    (parsed.enum # None /\ ~IsMemberValue(ParsedEnum, parsed.raw)) =>
        /\ ~parsed.raised
        /\ parsed.logged
        /\ parsed.member = None

\* C2 amended: parsing a raw string that is no member value of the enum logs a
\* diagnostic, yields no member, and raises ValueError to the caller; a raw
\* string that is a member value yields that member without log or error.
C2_ParseLogsAndRaises ==
    /\ (parsed.enum # None /\ ~IsMemberValue(ParsedEnum, parsed.raw)) =>
          /\ parsed.logged
          /\ parsed.member = None
          /\ parsed.raised
    /\ (parsed.enum # None /\ IsMemberValue(ParsedEnum, parsed.raw)) =>
          /\ ~parsed.raised
          /\ ~parsed.logged
          /\ parsed.member \in DOMAIN ParsedEnum
          /\ ParsedEnum[parsed.member] = parsed.raw

C2_Witness ==
    /\ parsed.enum = "SeatCupraChargingState"
    /\ parsed.raw = "turboCharging"
    /\ parsed.logged
    /\ parsed.raised
    /\ parsed.member = None

\* C3: after SeatCupraCharging(origin=None) returns, state, type, mode,
\* preferred_mode and the connector's connection_state, external_power and
\* lock_state each hold their UNKNOWN member; after
\* SeatCupraClimatization(origin=None) returns, state holds UNKNOWN.
C3_FreshAllUnknown ==
    /\ (chargingHist.ctor /\ chargingHist.fresh) =>
          /\ charging.exists
          /\ charging.connector
          /\ \A a \in ChargingAttrs : charging.attrs[a] = ChargingUnknown[a]
    /\ (climatizationHist.ctor /\ climatizationHist.fresh) =>
          /\ climatization.exists
          /\ \A a \in ClimatizationAttrs : climatization.attrs[a] = ClimatizationUnknown[a]

C3_Witness ==
    /\ chargingHist.ctor
    /\ chargingHist.fresh
    /\ chargingHist.pre["lock_state"] = None
    /\ charging.attrs["lock_state"] = "ChargingConnectorLockState.UNKNOWN"
    /\ charging.attrs["mode"] = "SeatCupraChargeMode.UNKNOWN"

\* C4: when SeatCupraCharging is built from an origin whose mode (preferred_mode)
\* holds a non-null value V, the new entity's mode (preferred_mode) is V; and
\* from every reachable entity two further origin-upgrades leave a non-null
\* mode (preferred_mode) as it is.
C4_ModePreserved ==
    /\ (chargingHist.ctor /\ chargingHist.origin.exists) =>
          \A a \in BrandAttrs :
             HasValue(chargingHist.origin.attrs[a]) =>
                charging.attrs[a] = chargingHist.origin.attrs[a]
    /\ charging.exists =>
          LET once == SeatCupraChargingInit(host, charging).entity
              twice == SeatCupraChargingInit(host, once).entity
          IN \A a \in BrandAttrs :
                HasValue(charging.attrs[a]) =>
                   /\ once.attrs[a] = charging.attrs[a]
                   /\ twice.attrs[a] = charging.attrs[a]

C4_Witness ==
    /\ chargingHist.ctor
    /\ chargingHist.origin.exists
    /\ chargingHist.origin.attrs["mode"] = "SeatCupraChargeMode.TIMER"
    /\ charging.attrs["mode"] = "SeatCupraChargeMode.TIMER"

\* C5: a Settings object built with an origin holds, in every brand-specific
\* field, the origin's value if the origin has that field with a non-null value,
\* and is unset otherwise (both Settings classes).
C5_SettingsCopiedForward ==
    /\ chargingHist.ctor =>
          \A x \in ChargingSettingsFields :
             charging.settings.f[x] =
                IF HasValue(chargingHist.settingsOrigin.f[x])
                THEN chargingHist.settingsOrigin.f[x] ELSE None
    /\ (climatizationHist.ctor /\ climatizationHist.settingsBuilt) =>
          \A x \in ClimatizationSettingsFields :
             climatization.settings.f[x] =
                IF HasValue(climatizationHist.settingsOrigin.f[x])
                THEN climatizationHist.settingsOrigin.f[x] ELSE None

\* C6: after _ensure_base_commands on a vehicle with a climatization, whatever
\* the container was before, the container exists and is enabled and holds an
\* enabled 'start-stop' command.
C6_EnsureBaseConverges ==
    (climatizationHist.ensured /\ climatization.exists) => Stable(climatization.commands)

C6_Witness ==
    /\ climatizationHist.ensured
    /\ climatizationHist.before.present
    /\ ~climatizationHist.before.enabled
    /\ [name |-> "start-stop", enabled |-> FALSE] \in climatizationHist.before.commands
    /\ Stable(climatization.commands)

\* C7: after _ensure_charging_commands on a vehicle with a charging, whatever
\* the container was before, the container exists and is enabled and holds an
\* enabled 'start-stop' command.
C7_EnsureChargingConverges ==
    (chargingHist.ensured /\ charging.exists) => Stable(charging.commands)

\* C8: after either registration procedure has run, running it again changes
\* nothing (same commands, same enabled flags), and the container holds exactly
\* one command named 'start-stop'.
C8_EnsureIdempotent ==
    /\ (climatizationHist.ensured /\ climatization.exists) =>
          /\ ensure_base_commands(climatization) = climatization
          /\ Cardinality(StartStop(climatization.commands)) = 1
    /\ (chargingHist.ensured /\ charging.exists) =>
          /\ ensure_charging_commands(charging) = charging
          /\ Cardinality(StartStop(charging.commands)) = 1

C8_Witness ==
    /\ chargingHist.ensured
    /\ [name |-> "start-stop", enabled |-> FALSE] \in chargingHist.before.commands
    /\ ensure_charging_commands(charging) = charging
    /\ Cardinality(StartStop(charging.commands)) = 1

\* C9: whatever attribute or sub-entity the host lacks and whichever default
\* assignment raises, no exception leaves the constructor of SeatCupraCharging or
\* SeatCupraClimatization and the entity exists; where nothing raised, every
\* attribute that exists holds a value.
C9_BackfillFailSafe ==
    /\ chargingHist.ctor =>
          /\ ~chargingHist.escaped
          /\ charging.exists
          /\ ~chargingHist.skipped => \A a \in ChargingAttrs : charging.attrs[a] # None
    /\ climatizationHist.ctor =>
          /\ ~climatizationHist.escaped
          /\ climatization.exists
          /\ ~climatizationHist.skipped =>
                \A a \in ClimatizationAttrs : climatization.attrs[a] # None

C9_Witness ==
    /\ chargingHist.ctor
    /\ chargingHist.skipped
    /\ ~chargingHist.escaped
    /\ charging.exists
    /\ charging.attrs["lock_state"] = None

\* C10: the backfill leaves every attribute that held a non-null value as it
\* was; an attribute it changes was unset and now holds its own UNKNOWN member.
C10_BackfillOnlyFillsGaps ==
    /\ chargingHist.ctor =>
          \A a \in ChargingAttrs :
             /\ chargingHist.pre[a] # None => charging.attrs[a] = chargingHist.pre[a]
             /\ charging.attrs[a] # chargingHist.pre[a] =>
                   /\ chargingHist.pre[a] = None
                   /\ charging.attrs[a] = ChargingUnknown[a]
    /\ climatizationHist.ctor =>
          \A a \in ClimatizationAttrs :
             /\ climatizationHist.pre[a] # None => climatization.attrs[a] = climatizationHist.pre[a]
             /\ climatization.attrs[a] # climatizationHist.pre[a] =>
                   /\ climatizationHist.pre[a] = None
                   /\ climatization.attrs[a] = ClimatizationUnknown[a]

C10_Witness ==
    /\ chargingHist.ctor
    /\ chargingHist.origin.exists
    /\ chargingHist.pre["state"] = "ChargingState.CHARGING"
    /\ charging.attrs["state"] = "ChargingState.CHARGING"
    /\ chargingHist.pre["mode"] = None
    /\ charging.attrs["mode"] = "SeatCupraChargeMode.UNKNOWN"

====
